---------------------------- MODULE Spec2Model ----------------------------
(* Pattern algebra, regex statistics scanner and TextMate grammar compiler *)
(* of the highlight tool.  Texts are sequences of one-character strings;   *)
(* JS Map objects are sequences of <<key, value>> pairs in insertion       *)
(* order; an optional field is <<>> (undefined) or <<v>>; a Pattern object *)
(* is a record whose id field stands for its reference identity.           *)
EXTENDS Integers, Sequences, FiniteSets, TLC

VARIABLES stack, nextId, captureCnt, res, g, out

vars == <<stack, nextId, captureCnt, res, g, out>>

-----------------------------------------------------------------------------
(* Bounds of the exploration *)

MaxSize == 6

MaxAlgSize == 4

-----------------------------------------------------------------------------
(* Precedence levels *)

ALT == 0

SEQ == 1

REP == 2

GROUP == 3

Min(a, b) == IF a <= b THEN a ELSE b

-----------------------------------------------------------------------------
(* JS Map: get / has / set keep insertion order, set on a present key     *)
(* replaces the value in place.                                          *)

MapHas(m, k) == \E j \in 1..Len(m) : m[j][1] = k

MapGet(m, k) == m[CHOOSE j \in 1..Len(m) : m[j][1] = k][2]

MapSet(m, k, v) ==
    IF MapHas(m, k)
    THEN [j \in 1..Len(m) |-> IF m[j][1] = k THEN <<k, v>> ELSE m[j]]
    ELSE Append(m, <<k, v>>)

MapKeys(m) == {m[j][1] : j \in 1..Len(m)}

RECURSIVE SetAll(_, _)
SetAll(result, m) ==
    IF m = <<>> THEN result
    ELSE SetAll(MapSet(result, m[1][1], m[1][2]), Tail(m))

mergeMaps(m1, m2) == SetAll(SetAll(<<>>, m1), m2)

extendMap(m, k, v) == mergeMaps(m, <<<<k, v>>>>)

shiftCaptureGroups(m, offset) ==
    SetAll(<<>>, [j \in 1..Len(m) |-> <<m[j][1], m[j][2] + offset>>])

-----------------------------------------------------------------------------
(* Regex statistics scanner *)

charAt(regex, i) == IF i < Len(regex) THEN regex[i + 1] ELSE "undefined"

top_Bottom(stk) == IF Len(stk) = 0 THEN "undefined" ELSE stk[1]

top(stk) == IF Len(stk) = 0 THEN "undefined" ELSE stk[Len(stk)]

updatePrec_Assign(st, p) == IF Len(st.stk) = 0 THEN p ELSE st.prec

updatePrec(st, p) == IF Len(st.stk) = 0 THEN Min(st.prec, p) ELSE st.prec

possibleSequencing_Always(st) == updatePrec(st, SEQ)

possibleSequencing(st) == IF st.i > 0 THEN updatePrec(st, SEQ) ELSE st.prec

RECURSIVE WalkToBrace(_, _)
WalkToBrace(regex, i) ==
    IF i < Len(regex) /\ regex[i + 1] # "}" THEN WalkToBrace(regex, i + 1) ELSE i

ScanInit == [i |-> 0, prec |-> GROUP, captGroups |-> 0, stk |-> <<>>]

(* One iteration of the while loop of regexStats *)
ScanStep(regex, st) ==
    LET c == regex[st.i + 1] IN
    IF c = "(" /\ top(st.stk) # "]"
    THEN [i |-> IF charAt(regex, st.i + 1) = "?" THEN st.i + 2 ELSE st.i + 1,
          prec |-> possibleSequencing(st),
          captGroups |-> IF charAt(regex, st.i + 1) = "?"
                         THEN st.captGroups ELSE st.captGroups + 1,
          stk |-> Append(st.stk, ")")]
    ELSE IF c = "["
    THEN [i |-> IF charAt(regex, st.i + 1) = "]" THEN st.i + 2
                ELSE IF charAt(regex, st.i + 1) = "^" /\ charAt(regex, st.i + 2) = "]"
                     THEN st.i + 3 ELSE st.i + 1,
          prec |-> possibleSequencing(st),
          captGroups |-> st.captGroups,
          stk |-> Append(st.stk, "]")]
    ELSE IF top(st.stk) = c
    THEN [st EXCEPT !.i = st.i + 1, !.stk = SubSeq(st.stk, 1, Len(st.stk) - 1)]
    ELSE IF c = "|"
    THEN [st EXCEPT !.i = st.i + 1, !.prec = updatePrec(st, ALT)]
    ELSE IF c = "\\"
    THEN [st EXCEPT !.i = st.i + 2, !.prec = possibleSequencing(st)]
    ELSE IF st.i > 0 /\ c \in {"*", "+", "?", "{"}
    THEN [st EXCEPT !.i = IF c = "{" THEN WalkToBrace(regex, st.i + 1) ELSE st.i + 1,
                    !.prec = updatePrec(st, REP)]
    ELSE [st EXCEPT !.i = st.i + 1, !.prec = possibleSequencing(st)]

RECURSIVE ScanFrom(_, _)
ScanFrom(regex, st) ==
    IF st.i < Len(regex) THEN ScanFrom(regex, ScanStep(regex, st)) ELSE st

regexStats(regex) ==
    LET st == ScanFrom(regex, ScanInit)
    IN  [precedence |-> st.prec, captureGroupCount |-> st.captGroups]

-----------------------------------------------------------------------------
(* Pattern classes *)

RegexPattern(id, text) == [kind |-> "regex", id |-> id, text |-> text]

AltPattern(id, first, second) ==
    [kind |-> "alt", id |-> id, first |-> first, second |-> second]

SeqPattern(id, first, second) ==
    [kind |-> "seq", id |-> id, first |-> first, second |-> second]

RepPattern(id, element, min, max) ==
    [kind |-> "rep", id |-> id, element |-> element, min |-> min, max |-> max]

CapturePattern(id, element, name) ==
    [kind |-> "capture", id |-> id, element |-> element, name |-> name]

LookaroundPattern(id, element, behind, negate) ==
    [kind |-> "lookaround", id |-> id, element |-> element,
     behind |-> behind, negate |-> negate]

TagPattern(id, element, tags) ==
    [kind |-> "tag", id |-> id, element |-> element, tags |-> tags]

(* contentElement(): the object used as the key of captureGroups and tags *)
RECURSIVE contentElement(_)
contentElement(p) ==
    IF p.kind \in {"capture", "lookaround", "tag"}
    THEN contentElement(p.element)
    ELSE p

groupForPrecedence_KeepsPrecedence(regex, prec) ==
    IF regex.precedence >= prec THEN regex
    ELSE [regex EXCEPT !.regex = <<"(", "?", ":">> \o regex.regex \o <<")">>]

groupForPrecedence(regex, prec) ==
    IF regex.precedence >= prec THEN regex
    ELSE [regex EXCEPT !.regex = <<"(", "?", ":">> \o regex.regex \o <<")">>,
                       !.precedence = GROUP]

RECURSIVE Digits(_)
Digits(n) ==
    IF n < 10 THEN <<ToString(n)>> ELSE Append(Digits(n \div 10), ToString(n % 10))

RepOp_AlwaysBraces(min, max) ==
    IF max = <<>> THEN <<"{">> \o Digits(min) \o <<",", "}">>
    ELSE <<"{">> \o Digits(min) \o <<",">> \o Digits(max[1]) \o <<"}">>

RepOp(min, max) ==
    IF max = <<>>
    THEN IF min = 0 THEN <<"*">>
         ELSE IF min = 1 THEN <<"+">>
         ELSE <<"{">> \o Digits(min) \o <<",", "}">>
    ELSE IF min = 0 /\ max[1] = 1 THEN <<"?">>
    ELSE IF min = max[1] THEN <<"{">> \o Digits(min) \o <<"}">>
    ELSE IF min = 0 THEN <<"{", ",">> \o Digits(max[1]) \o <<"}">>
    ELSE <<"{">> \o Digits(min) \o <<",">> \o Digits(max[1]) \o <<"}">>

LookOp_AheadOnly(behind, negate) == IF negate THEN <<"!">> ELSE <<"=">>

LookOp(behind, negate) ==
    (IF behind THEN <<"<">> ELSE <<>>) \o (IF negate THEN <<"!">> ELSE <<"=">>)

toRegexThrows_Never(p) == FALSE

(* TagPattern.toRegex throws when its element is not a CapturePattern *)
RECURSIVE toRegexThrows(_)
toRegexThrows(p) ==
    CASE p.kind = "regex" -> FALSE
      [] p.kind \in {"alt", "seq"} -> toRegexThrows(p.first) \/ toRegexThrows(p.second)
      [] p.kind = "tag" -> p.element.kind # "capture" \/ toRegexThrows(p.element)
      [] OTHER -> toRegexThrows(p.element)

(* RegexPattern.toRegex *)
LeafResult(p) ==
    [regex |-> p.text,
     precedence |-> regexStats(p.text).precedence,
     captureGroupCount |-> regexStats(p.text).captureGroupCount,
     captureNames |-> <<>>,
     captureGroups |-> <<>>,
     tags |-> <<>>]

(* AltPattern.toRegex, a and b already grouped for ALT *)
AltResult(a, b) ==
    [regex |-> a.regex \o <<"|">> \o b.regex,
     precedence |-> ALT,
     captureGroupCount |-> a.captureGroupCount + b.captureGroupCount,
     captureNames |-> mergeMaps(a.captureNames, b.captureNames),
     captureGroups |-> mergeMaps(a.captureGroups,
         shiftCaptureGroups(b.captureGroups, a.captureGroupCount)),
     tags |-> mergeMaps(a.tags, b.tags)]

(* SeqPattern.toRegex, a and b already grouped for SEQ *)
SeqResult(a, b) ==
    [regex |-> a.regex \o b.regex,
     precedence |-> SEQ,
     captureGroupCount |-> a.captureGroupCount + b.captureGroupCount,
     captureNames |-> mergeMaps(a.captureNames, b.captureNames),
     captureGroups |-> mergeMaps(a.captureGroups,
         shiftCaptureGroups(b.captureGroups, a.captureGroupCount)),
     tags |-> mergeMaps(a.tags, b.tags)]

(* RepPattern.toRegex, e already grouped for REP *)
RepResult(p, e) ==
    [e EXCEPT !.regex = e.regex \o RepOp(p.min, p.max), !.precedence = REP]

CaptureResult_NoCount(p, e) ==
    [regex |-> <<"(">> \o e.regex \o <<")">>,
     precedence |-> GROUP,
     captureGroupCount |-> e.captureGroupCount,
     captureGroups |-> extendMap(shiftCaptureGroups(e.captureGroups, 1),
                                 contentElement(p).id, 1),
     captureNames |-> extendMap(e.captureNames, p.name, contentElement(p).id),
     tags |-> e.tags]

(* CapturePattern.toRegex *)
CaptureResult(p, e) ==
    [regex |-> <<"(">> \o e.regex \o <<")">>,
     precedence |-> GROUP,
     captureGroupCount |-> e.captureGroupCount + 1,
     captureGroups |-> extendMap(shiftCaptureGroups(e.captureGroups, 1),
                                 contentElement(p).id, 1),
     captureNames |-> extendMap(e.captureNames, p.name, contentElement(p).id),
     tags |-> e.tags]

(* LookaroundPattern.toRegex *)
LookaroundResult(p, e) ==
    [e EXCEPT !.precedence = GROUP,
              !.regex = <<"(", "?">> \o LookOp(p.behind, p.negate)
                        \o e.regex \o <<")">>]

(* TagPattern.toRegex *)
TagResult(p, e) ==
    [e EXCEPT !.tags = extendMap(e.tags, contentElement(p).id, p.tags)]

RECURSIVE toRegex(_)
toRegex(p) ==
    CASE p.kind = "regex" -> LeafResult(p)
      [] p.kind = "alt" ->
            AltResult(groupForPrecedence(toRegex(p.first), ALT),
                      groupForPrecedence(toRegex(p.second), ALT))
      [] p.kind = "seq" ->
            SeqResult(groupForPrecedence(toRegex(p.first), SEQ),
                      groupForPrecedence(toRegex(p.second), SEQ))
      [] p.kind = "rep" ->
            RepResult(p, groupForPrecedence(toRegex(p.element), REP))
      [] p.kind = "capture" -> CaptureResult(p, toRegex(p.element))
      [] p.kind = "lookaround" -> LookaroundResult(p, toRegex(p.element))
      [] p.kind = "tag" -> TagResult(p, toRegex(p.element))

-----------------------------------------------------------------------------
(* Texts *)

IDENT_TEXT ==
    <<"[", "_", "[", ":", "a", "l", "p", "h", "a", ":", "]", "]",
      "[", "_", "[", ":", "a", "l", "n", "u", "m", ":", "]", "]", "*">>

SPACE_TEXT == <<"\\", "s">>

(* Module-level pattern constants shared by every grammar *)
IDENT == RegexPattern(1, IDENT_TEXT)

SPACE == RegexPattern(2, SPACE_TEXT)

Builtins == {IDENT, SPACE}

FirstFreeId == 3

RegexSpecials ==
    {".", "*", "+", "?", "^", "$", "{", "}", "(", ")", "|", "[", "]", "\\"}

RECURSIVE escapeRegex_FirstOnly(_)
escapeRegex_FirstOnly(text) ==
    IF text = <<>> THEN <<>>
    ELSE IF text[1] \in RegexSpecials THEN <<"\\", text[1]>> \o Tail(text)
    ELSE <<text[1]>> \o escapeRegex_FirstOnly(Tail(text))

(* text.replace(/[.*+?^${}()|[\]\\]/g, '\\$&') *)
RECURSIVE escapeRegex(_)
escapeRegex(text) ==
    IF text = <<>> THEN <<>>
    ELSE (IF text[1] \in RegexSpecials THEN <<"\\", text[1]>> ELSE <<text[1]>>)
         \o escapeRegex(Tail(text))

LiteralTexts == {<<".">>, <<"{">>}

RepBounds == {<<0, <<>>>>, <<1, <<>>>>, <<0, <<1>>>>}

(* Raw regex texts an author passes to regex() *)
RawGroup == <<"(", "a", ")">>

RawAlt == <<"a", "|", "b">>

RawTexts == {RawGroup, RawAlt}

CaptureNames == {"x", "y"}

(* Scope catalog entries *)
Scope(tmName) == [isScope |-> TRUE, textMateName |-> tmName]

CommentBlock == Scope(<<"c", "o", "m", "m", "e", "n", "t", ".", "b", "l", "o", "c", "k">>)

Punct == Scope(<<"p", "u", "n", "c", "t", "u", "a", "t", "i", "o", "n">>)

CommentLine == Scope(<<"c", "o", "m", "m", "e", "n", "t", ".", "l", "i", "n", "e">>)

NameType ==
    Scope(<<"e", "n", "t", "i", "t", "y", ".", "n", "a", "m", "e", ".", "t", "y", "p", "e">>)

TagLists == {<<CommentBlock>>, <<Punct>>}

-----------------------------------------------------------------------------
(* Grammar compiler *)

IsScope(v) == "isScope" \in DOMAIN v /\ v.isScope

IsArray(m) == "array" \in DOMAIN m

(* A Mode object; every field is optional *)
EmptyMode ==
    [include |-> <<>>, scope |-> <<>>, match |-> <<>>, captures |-> <<>>,
     begin |-> <<>>, beginCaptures |-> <<>>, end |-> <<>>, endCaptures |-> <<>>,
     contains |-> <<>>]

include(name) == [EmptyMode EXCEPT !.include = <<<<"#">> \o name>>]

(* The compiled rule object built by modeToTextMate *)
EmptyRule ==
    [name |-> <<>>, match |-> <<>>, captures |-> <<>>,
     begin |-> <<>>, beginCaptures |-> <<>>, end |-> <<>>, endCaptures |-> <<>>,
     patterns |-> <<>>]

fixScope_Unqualified(scope, gr) == scope.textMateName

fixScope(scope, gr) == scope.textMateName \o <<".">> \o gr.scopeName[1]

LowerCase ==
    [c \in {"A", "B", "C", "D", "E", "F", "G", "H", "I", "J", "K", "L", "M", "N",
            "O", "P", "Q", "R", "S", "T", "U", "V", "W", "X", "Y", "Z"} |->
        CASE c = "A" -> "a" [] c = "B" -> "b" [] c = "C" -> "c" [] c = "D" -> "d"
          [] c = "E" -> "e" [] c = "F" -> "f" [] c = "G" -> "g" [] c = "H" -> "h"
          [] c = "I" -> "i" [] c = "J" -> "j" [] c = "K" -> "k" [] c = "L" -> "l"
          [] c = "M" -> "m" [] c = "N" -> "n" [] c = "O" -> "o" [] c = "P" -> "p"
          [] c = "Q" -> "q" [] c = "R" -> "r" [] c = "S" -> "s" [] c = "T" -> "t"
          [] c = "U" -> "u" [] c = "V" -> "v" [] c = "W" -> "w" [] c = "X" -> "x"
          [] c = "Y" -> "y" [] c = "Z" -> "z"]

(* text.toLowerCase().replace(' ', '-') *)
RECURSIVE FirstSpace(_, _)
FirstSpace(text, j) ==
    IF j > Len(text) THEN 0 ELSE IF text[j] = " " THEN j ELSE FirstSpace(text, j + 1)

toKebabCase_FirstSpace(text) ==
    [j \in 1..Len(text) |->
        IF text[j] \in DOMAIN LowerCase THEN LowerCase[text[j]]
        ELSE IF j = FirstSpace(text, 1) THEN "-"
        ELSE text[j]]

toKebabCase(text) ==
    [j \in 1..Len(text) |->
        IF text[j] \in DOMAIN LowerCase THEN LowerCase[text[j]]
        ELSE IF text[j] = " " THEN "-"
        ELSE text[j]]

translateGroupName_Silent(result, groupName) ==
    IF groupName = "$all" THEN [err |-> "none", key |-> 0]
    ELSE IF ~MapHas(result.captureNames, groupName)
    THEN [err |-> "none", key |-> 0]
    ELSE IF ~MapHas(result.captureGroups, MapGet(result.captureNames, groupName))
    THEN [err |-> "Internal error, group has no index entry", key |-> 0]
    ELSE [err |-> "none",
          key |-> MapGet(result.captureGroups, MapGet(result.captureNames, groupName))]

(* translateGroupName: the key of the captures object, as a number *)
translateGroupName(result, groupName) ==
    IF groupName = "$all" THEN [err |-> "none", key |-> 0]
    ELSE IF ~MapHas(result.captureNames, groupName)
    THEN [err |-> "Unknown capture group referenced", key |-> 0]
    ELSE IF ~MapHas(result.captureGroups, MapGet(result.captureNames, groupName))
    THEN [err |-> "Internal error, group has no index entry", key |-> 0]
    ELSE [err |-> "none",
          key |-> MapGet(result.captureGroups, MapGet(result.captureNames, groupName))]

(* captures[key] = value *)
Assign(captures, key, value) ==
    [k \in DOMAIN captures \cup {key} |-> IF k = key THEN value ELSE captures[k]]

EmptyObject == [k \in {} |-> <<>>]

startsWith(text, c) == Len(text) >= 1 /\ text[1] = c

endsWith(text, c) == Len(text) >= 1 /\ text[Len(text)] = c

optimizeRegexWithCaptures(r) ==
    LET stats == regexStats(r.regex) IN
    IF stats.captureGroupCount >= 1 /\ stats.precedence >= GROUP
    THEN IF r.captures = <<>>
         THEN [err |-> "TypeError: cannot use 'in' operator in undefined",
               regex |-> r.regex, captures |-> r.captures]
         ELSE IF 1 \in DOMAIN r.captures[1]
                 /\ startsWith(r.regex, "(") /\ endsWith(r.regex, ")")
         THEN [err |-> "none",
               regex |-> SubSeq(r.regex, 2, Len(r.regex) - 1),
               captures |-> <<[k \in {idx - 1 : idx \in DOMAIN r.captures[1]} |->
                                  r.captures[1][k + 1]]>>]
         ELSE [err |-> "none", regex |-> r.regex, captures |-> r.captures]
    ELSE [err |-> "none", regex |-> r.regex, captures |-> r.captures]

(* the loop over result.tags and, inside it, over the tags of one pattern *)
RECURSIVE TagLoop(_, _, _, _)
TagLoop(result, gr, acc, todo) ==
    IF todo = <<>> \/ acc.err # "none" THEN acc
    ELSE LET pattern == todo[1][1]
             tagv == todo[1][2]
         IN  IF ~MapHas(result.captureGroups, pattern)
             THEN [acc EXCEPT !.err = "Internal error, group has no index entry for tag"]
             ELSE IF IsScope(tagv)
             THEN TagLoop(result, gr,
                      [acc EXCEPT !.captures =
                          Assign(acc.captures, MapGet(result.captureGroups, pattern),
                                 [name |-> fixScope(tagv, gr)])],
                      Tail(todo))
             ELSE TagLoop(result, gr, acc, Tail(todo))

(* result.tags flattened to <<pattern, tag>> in iteration order *)
RECURSIVE FlatTags(_)
FlatTags(tags) ==
    IF tags = <<>> THEN <<>>
    ELSE [j \in 1..Len(tags[1][2]) |-> <<tags[1][1], tags[1][2][j]>>]
         \o FlatTags(Tail(tags))

RECURSIVE modeToTextMate(_, _)
RECURSIVE compilePattern(_, _, _)
RECURSIVE CapturesLoop(_, _, _, _)
RECURSIVE MapModes(_, _)

AssignRule(acc, key, sub) ==
    IF sub.err # "none" THEN [acc EXCEPT !.err = sub.err]
    ELSE [acc EXCEPT !.captures = Assign(acc.captures, key, sub.val)]

(* captures[newGroupName] = ... for one entry of existingCaptures *)
AssignDeclared(acc, key, groupValue, gr) ==
    IF IsScope(groupValue)
    THEN [acc EXCEPT !.captures =
             Assign(acc.captures, key, [name |-> fixScope(groupValue, gr)])]
    ELSE AssignRule(acc, key, modeToTextMate(groupValue, gr))

TranslateAndAssign(acc, newGroupName, groupValue, gr) ==
    IF newGroupName.err # "none" THEN [acc EXCEPT !.err = newGroupName.err]
    ELSE AssignDeclared(acc, newGroupName.key, groupValue, gr)

(* the loop over existingCaptures *)
CapturesLoop(result, gr, acc, todo) ==
    IF todo = <<>> \/ acc.err # "none" THEN acc
    ELSE CapturesLoop(result, gr,
             TranslateAndAssign(acc, translateGroupName(result, todo[1][1]),
                                todo[1][2], gr),
             Tail(todo))

NoCaptures == [err |-> "none", captures |-> EmptyObject]

FinishPattern(result, tagged) ==
    IF tagged.err # "none"
    THEN [err |-> tagged.err, regex |-> <<>>, captures |-> <<>>]
    ELSE optimizeRegexWithCaptures(
             [regex |-> result.regex,
              captures |-> IF DOMAIN tagged.captures = {}
                           THEN <<>> ELSE <<tagged.captures>>])

ResolveCaptures_TagsFirst(result, gr, existingCaptures) ==
    FinishPattern(result,
        IF existingCaptures = <<>>
        THEN TagLoop(result, gr, NoCaptures, FlatTags(result.tags))
        ELSE CapturesLoop(result, gr,
                 TagLoop(result, gr, NoCaptures, FlatTags(result.tags)),
                 existingCaptures[1]))

ResolveCaptures(result, gr, existingCaptures) ==
    FinishPattern(result,
        TagLoop(result, gr,
                IF existingCaptures = <<>> THEN NoCaptures
                ELSE CapturesLoop(result, gr, NoCaptures, existingCaptures[1]),
                FlatTags(result.tags)))

compilePattern(p, gr, existingCaptures) ==
    IF toRegexThrows(p)
    THEN [err |-> "Tagging requires an underlying capture",
          regex |-> <<>>, captures |-> <<>>]
    ELSE ResolveCaptures(toRegex(p), gr, existingCaptures)

ConsCompiled(head, rest) ==
    IF head.err # "none" THEN [err |-> head.err, val |-> <<>>]
    ELSE IF rest.err # "none" THEN rest
    ELSE [err |-> "none", val |-> <<head.val>> \o rest.val]

(* contained.map(m => modeToTextMate(m, g)) *)
MapModes(modes, gr) ==
    IF modes = <<>> THEN [err |-> "none", val |-> <<>>]
    ELSE ConsCompiled(modeToTextMate(modes[1], gr), MapModes(Tail(modes), gr))

StorePattern(acc, patternName, capturesName, c) ==
    IF c.err # "none" THEN [acc EXCEPT !.err = c.err]
    ELSE [acc EXCEPT !.val = [acc.val EXCEPT ![patternName] = <<c.regex>>,
                                             ![capturesName] = c.captures]]

handlePattern(acc, m, gr, patternName, capturesName) ==
    IF acc.err # "none" \/ m[patternName] = <<>> THEN acc
    ELSE StorePattern(acc, patternName, capturesName,
             compilePattern(m[patternName][1], gr, m[capturesName]))

StoreContained(acc, sub) ==
    IF sub.err # "none" THEN [acc EXCEPT !.err = sub.err]
    ELSE [acc EXCEPT !.val = [acc.val EXCEPT !.patterns = <<sub.val>>]]

Containment(acc, m, gr) ==
    IF acc.err # "none" \/ m.contains = <<>> THEN acc
    ELSE StoreContained(acc, MapModes(m.contains[1], gr))

NamedRule(m, gr) ==
    [err |-> "none",
     val |-> IF m.scope # <<>>
             THEN [EmptyRule EXCEPT !.name = <<fixScope(m.scope[1], gr)>>]
             ELSE EmptyRule]

(* the include's target is a rule of the repository *)
IncludeResolves(m, gr) ==
    /\ gr.repository # <<>>
    /\ \E j \in 1..Len(gr.repository[1]) :
          m.include[1] = <<"#">> \o gr.repository[1][j][1]

modeToTextMate_Linked(m, gr) ==
    IF IsArray(m)
    THEN modeToTextMate([EmptyMode EXCEPT !.contains = <<m.array>>], gr)
    ELSE IF m.include # <<>>
    THEN IF IncludeResolves(m, gr) THEN [err |-> "none", val |-> m]
         ELSE [err |-> "Unknown include", val |-> m]
    ELSE Containment(
             handlePattern(
                 handlePattern(
                     handlePattern(NamedRule(m, gr), m, gr, "match", "captures"),
                     m, gr, "begin", "beginCaptures"),
                 m, gr, "end", "endCaptures"),
             m, gr)

modeToTextMate(m, gr) ==
    IF IsArray(m)
    THEN modeToTextMate([EmptyMode EXCEPT !.contains = <<m.array>>], gr)
    ELSE IF m.include # <<>> THEN [err |-> "none", val |-> m]
    ELSE Containment(
             handlePattern(
                 handlePattern(
                     handlePattern(NamedRule(m, gr), m, gr, "match", "captures"),
                     m, gr, "begin", "beginCaptures"),
                 m, gr, "end", "endCaptures"),
             m, gr)

ConsEntry(name, head, rest) ==
    IF head.err # "none" THEN [err |-> head.err, val |-> <<>>]
    ELSE IF rest.err # "none" THEN rest
    ELSE [err |-> "none", val |-> <<<<name, head.val>>>> \o rest.val]

(* for (let name in g.repository) repo[name] = modeToTextMate(...) *)
RECURSIVE RepoLoop(_, _)
RepoLoop(entries, gr) ==
    IF entries = <<>> THEN [err |-> "none", val |-> <<>>]
    ELSE ConsEntry(entries[1][1], modeToTextMate(entries[1][2], gr),
                   RepoLoop(Tail(entries), gr))

FillScopeName_StoresQualified(gr) ==
    [gr EXCEPT !.scopeName =
        <<<<"s", "o", "u", "r", "c", "e", ".">>
          \o (IF gr.scopeName = <<>> THEN toKebabCase(gr.name) ELSE gr.scopeName[1])>>]

(* the grammar object as toTextMate leaves it: scopeName filled in *)
FillScopeName(gr) ==
    IF gr.scopeName = <<>>
    THEN [gr EXCEPT !.scopeName = <<toKebabCase(gr.name)>>]
    ELSE gr

WrapRepo(r) == [err |-> r.err, val |-> <<r.val>>]

Repository(gr) ==
    IF gr.repository = <<>> THEN [err |-> "none", val |-> <<>>]
    ELSE WrapRepo(RepoLoop(gr.repository[1], gr))

SchemaUrl == "https://raw.githubusercontent.com/martinring/tmlanguage/master/tmlanguage.json"

GrammarObject(gr, repo, pats) ==
    IF repo.err # "none" THEN [state |-> "throw", error |-> repo.err]
    ELSE IF pats.err # "none" THEN [state |-> "throw", error |-> pats.err]
    ELSE [state |-> "ok",
          value |-> [schema |-> SchemaUrl,
                     name |-> gr.name,
                     scopeName |-> <<"s", "o", "u", "r", "c", "e", ".">>
                                   \o gr.scopeName[1],
                     fileTypes |-> gr.extensions,
                     patterns |-> pats.val,
                     repository |-> repo.val]]

Compile(gr) == GrammarObject(gr, Repository(gr), MapModes(gr.modes, gr))

toTextMate(gr) == Compile(FillScopeName(gr))

-----------------------------------------------------------------------------
(* Author code: the operand stack of the pattern expression being evaluated *)

RECURSIVE Size(_)
Size(p) ==
    CASE p.kind = "regex" -> 1
      [] p.kind \in {"alt", "seq"} -> 1 + Size(p.first) + Size(p.second)
      [] OTHER -> 1 + Size(p.element)

RECURSIVE StackSize(_)
StackSize(s) == IF s = <<>> THEN 0 ELSE Size(s[1]) + StackSize(Tail(s))

Building == res.state = "none" /\ g = <<>> /\ out.state = "none"

(* room for n more pattern nodes in an expression of at most max nodes *)
Room(n, max) == Building /\ StackSize(stack) + n <= max

CanPush(max) == Room(1, max)

CanWrap(max) == Room(1, max) /\ Len(stack) >= 1

CanJoin(max) == Room(1, max) /\ Len(stack) >= 2

Top == stack[Len(stack)]

Below == stack[Len(stack) - 1]

ReplaceTop(n, p) == Append(SubSeq(stack, 1, Len(stack) - n), p)

(* a reference to IDENT or SPACE *)
Builtin(max, consts) ==
    /\ CanPush(max)
    /\ \E b \in consts : stack' = Append(stack, b)
    /\ UNCHANGED <<nextId, captureCnt, res, g, out>>

(* regex(r) *)
Regex(max, texts) ==
    /\ CanPush(max)
    /\ \E r \in texts : stack' = Append(stack, RegexPattern(nextId, r))
    /\ nextId' = nextId + 1
    /\ UNCHANGED <<captureCnt, res, g, out>>

(* cat(a, b) *)
Cat(max) ==
    /\ CanJoin(max)
    /\ stack' = ReplaceTop(2, SeqPattern(nextId, Below, Top))
    /\ nextId' = nextId + 1
    /\ UNCHANGED <<captureCnt, res, g, out>>

(* or(a, b) *)
Or(max) ==
    /\ CanJoin(max)
    /\ stack' = ReplaceTop(2, AltPattern(nextId, Below, Top))
    /\ nextId' = nextId + 1
    /\ UNCHANGED <<captureCnt, res, g, out>>

(* capture(p, name) *)
Capture(max) ==
    /\ CanWrap(max)
    /\ \E name \in CaptureNames :
          stack' = ReplaceTop(1, CapturePattern(nextId, Top, name))
    /\ nextId' = nextId + 1
    /\ UNCHANGED <<captureCnt, res, g, out>>

(* tag(p, ...tags): captures p first when p is not a CapturePattern *)
TagWith(max, lists) ==
    /\ CanWrap(max)
    /\ \E tags \in lists :
          IF Top.kind # "capture"
          THEN /\ Room(2, max)
               /\ stack' = ReplaceTop(1,
                     TagPattern(nextId + 1,
                         CapturePattern(nextId, Top,
                             "tagCapture_" \o ToString(captureCnt)),
                         tags))
               /\ nextId' = nextId + 2
               /\ captureCnt' = captureCnt + 1
          ELSE /\ stack' = ReplaceTop(1, TagPattern(nextId, Top, tags))
               /\ nextId' = nextId + 1
               /\ captureCnt' = captureCnt
    /\ UNCHANGED <<res, g, out>>

(* tag(p, S) with one Scope *)
Tag(max) == TagWith(max, TagLists)

(* literal(l) *)
Literal(max, texts) ==
    /\ CanPush(max)
    /\ \E l \in texts :
          stack' = Append(stack, RegexPattern(nextId, escapeRegex(l)))
    /\ nextId' = nextId + 1
    /\ UNCHANGED <<captureCnt, res, g, out>>

(* rep(p, min, max) *)
Rep(max, bounds) ==
    /\ CanWrap(max)
    /\ \E b \in bounds :
          stack' = ReplaceTop(1, RepPattern(nextId, Top, b[1], b[2]))
    /\ nextId' = nextId + 1
    /\ UNCHANGED <<captureCnt, res, g, out>>

(* lookahead(p, negate) *)
Lookahead(max) ==
    /\ CanWrap(max)
    /\ \E negate \in BOOLEAN :
          stack' = ReplaceTop(1, LookaroundPattern(nextId, Top, FALSE, negate))
    /\ nextId' = nextId + 1
    /\ UNCHANGED <<captureCnt, res, g, out>>

(* lookbehind(p, negate) *)
Lookbehind(max) ==
    /\ CanWrap(max)
    /\ \E negate \in BOOLEAN :
          stack' = ReplaceTop(1, LookaroundPattern(nextId, Top, TRUE, negate))
    /\ nextId' = nextId + 1
    /\ UNCHANGED <<captureCnt, res, g, out>>

(* p.toRegex() called by author code *)
ToRegex ==
    /\ Building
    /\ Len(stack) >= 1
    /\ res' = IF toRegexThrows(Top)
              THEN [state |-> "throw", error |-> "Tagging requires an underlying capture"]
              ELSE [state |-> "ok", value |-> toRegex(Top)]
    /\ UNCHANGED <<stack, nextId, captureCnt, g, out>>

-----------------------------------------------------------------------------
(* Author code: the grammar object literal handed to toTextMate *)

MatchMode(scope, match, captures) ==
    [EmptyMode EXCEPT !.scope = scope, !.match = <<match>>, !.captures = captures]

SpanMode(scope, begin, end, beginCaptures, endCaptures) ==
    [EmptyMode EXCEPT !.scope = scope, !.begin = <<begin>>, !.end = <<end>>,
                      !.beginCaptures = beginCaptures, !.endCaptures = endCaptures]

GroupMode(contains) == [EmptyMode EXCEPT !.contains = <<contains>>]

ArrayOf(modes) == [array |-> modes]

DSharpHead ==
    [name |-> <<"D", "#">>, scopeName |-> <<<<"d", "s", "h", "a", "r", "p">>>>,
     extensions |-> <<"dmla">>]

DracoHead ==
    [name |-> <<"D", "r", "a", "c", "o">>, scopeName |-> <<>>,
     extensions |-> <<"draco">>]

RuleName == <<"r", "u", "l", "e">>

(* declared captures maps: absent, or an object in key order *)
NoCaps == <<>>

CapsX == <<<< <<"x", NameType>> >>>>

CapsAll == <<<< <<"$all", CommentLine>> >>>>

CapsAllX == <<<< <<"$all", CommentLine>>, <<"x", NameType>> >>>>

(* a captures entry whose value is a rule *)
CapsRule(inner) == <<<< <<"x", MatchMode(<<>>, IDENT, inner)>> >>>>

Grammar(head, modes, repository) ==
    [name |-> head.name, scopeName |-> head.scopeName,
     extensions |-> head.extensions, modes |-> modes, repository |-> repository]

(* where the rule sits in the grammar *)
Place(head, where, rule) ==
    CASE where = "top" -> Grammar(head, <<rule>>, <<>>)
      [] where = "contains" -> Grammar(head, <<GroupMode(<<rule>>)>>, <<>>)
      [] where = "repository" ->
            Grammar(head, <<include(RuleName)>>, <<<< <<RuleName, rule>> >>>>)
      [] where = "array" ->
            Grammar(head, <<include(RuleName)>>,
                    <<<< <<RuleName, ArrayOf(<<rule>>)>> >>>>)

(* the grammars an author writes over the patterns built so far *)
Grammars ==
    IF Len(stack) = 1
    THEN {Place(DSharpHead, "top", MatchMode(<<>>, Top, caps)) :
             caps \in {NoCaps, CapsX, CapsAll}}
         \cup {Place(DSharpHead, "top", MatchMode(<<CommentBlock>>, Top, CapsAllX))}
         \cup {Place(DracoHead, w, MatchMode(<<>>, Top, CapsX)) :
                  w \in {"contains", "repository", "array"}}
         \cup {Place(DracoHead, "top", MatchMode(<<>>, Top, CapsRule(inner))) :
                  inner \in {NoCaps, CapsX}}
    ELSE {Place(DracoHead, "top",
                SpanMode(<<CommentBlock>>, Below, Top, c[1], c[2])) :
             c \in {<<NoCaps, CapsX>>, <<CapsAll, NoCaps>>}}

(* let grammar: TextMateGrammar = { ... } *)
DefineGrammar ==
    /\ Building
    /\ Len(stack) >= 1
    /\ \E gr \in Grammars : g' = <<gr>>
    /\ UNCHANGED <<stack, nextId, captureCnt, res, out>>

(* toTextMate(grammar) *)
ToTextMate ==
    /\ g # <<>>
    /\ out.state = "none"
    /\ g' = <<FillScopeName(g[1])>>
    /\ out' = toTextMate(g[1])
    /\ UNCHANGED <<stack, nextId, captureCnt, res>>

Init ==
    /\ stack = <<>>
    /\ nextId = FirstFreeId
    /\ captureCnt = 0
    /\ res = [state |-> "none"]
    /\ g = <<>>
    /\ out = [state |-> "none"]

Next ==
    \/ Builtin(MaxSize, {IDENT})
    \/ Regex(MaxSize, {RawGroup})
    \/ Cat(MaxSize)
    \/ Capture(MaxSize)
    \/ Tag(MaxSize)
    \/ ToRegex
    \/ DefineGrammar
    \/ ToTextMate

Spec == Init /\ [][Next]_vars

(* the pattern algebra alone, with every constructor *)
NextAlgebra ==
    \/ Builtin(MaxAlgSize, Builtins)
    \/ Regex(MaxAlgSize, RawTexts)
    \/ Literal(MaxAlgSize, LiteralTexts)
    \/ Rep(MaxAlgSize, RepBounds)
    \/ Lookahead(MaxAlgSize)
    \/ Lookbehind(MaxAlgSize)
    \/ Cat(MaxAlgSize)
    \/ Or(MaxAlgSize)
    \/ Capture(MaxAlgSize)
    \/ Tag(MaxAlgSize)
    \/ ToRegex

SpecAlgebra == Init /\ [][NextAlgebra]_vars

-----------------------------------------------------------------------------
(* Structure of a pattern tree, read off the tree itself *)

RECURSIVE CaptureNodes(_)
CaptureNodes(p) ==
    CASE p.kind = "regex" -> 0
      [] p.kind \in {"alt", "seq"} -> CaptureNodes(p.first) + CaptureNodes(p.second)
      [] p.kind = "capture" -> 1 + CaptureNodes(p.element)
      [] OTHER -> CaptureNodes(p.element)

RECURSIVE LeafGroups(_)
LeafGroups(p) ==
    CASE p.kind = "regex" -> regexStats(p.text).captureGroupCount
      [] p.kind \in {"alt", "seq"} -> LeafGroups(p.first) + LeafGroups(p.second)
      [] OTHER -> LeafGroups(p.element)

RECURSIVE NamesIn(_)
NamesIn(p) ==
    CASE p.kind = "regex" -> {}
      [] p.kind \in {"alt", "seq"} -> NamesIn(p.first) \cup NamesIn(p.second)
      [] p.kind = "capture" -> {p.name} \cup NamesIn(p.element)
      [] OTHER -> NamesIn(p.element)

RECURSIVE TagNodes(_)
TagNodes(p) ==
    CASE p.kind = "regex" -> {}
      [] p.kind \in {"alt", "seq"} -> TagNodes(p.first) \cup TagNodes(p.second)
      [] p.kind = "tag" -> {p} \cup TagNodes(p.element)
      [] OTHER -> TagNodes(p.element)

(* the group number a name resolves to in a build result *)
IndexOf(result, name) == translateGroupName(result, name).key

Compiled == res.state = "ok"

-----------------------------------------------------------------------------
(* C1: compiling seq(P,Q) or alt(P,Q) gives captureGroupCount(P) +          *)
(* captureGroupCount(Q); every capture of P resolves to the index it has    *)
(* when P is compiled alone and every capture of Q to its index in Q alone  *)
(* plus captureGroupCount(P).                                               *)
C1_JoinKeepsLeftShiftsRight ==
    (Compiled /\ Top.kind \in {"seq", "alt"}) =>
        /\ res.value.captureGroupCount =
              toRegex(Top.first).captureGroupCount
              + toRegex(Top.second).captureGroupCount
        /\ \A n \in NamesIn(Top.first) \ NamesIn(Top.second) :
              IndexOf(res.value, n) = IndexOf(toRegex(Top.first), n)
        /\ \A n \in NamesIn(Top.second) :
              IndexOf(res.value, n) =
                 IndexOf(toRegex(Top.second), n)
                 + toRegex(Top.first).captureGroupCount

(* C2: capture(P, name) has captureGroupCount(P) + 1 groups, the new capture *)
(* resolves to index 1 and every capture that had index k inside P resolves  *)
(* to k + 1.                                                                 *)
C2_CaptureShiftsByOne ==
    (Compiled /\ Top.kind = "capture") =>
        /\ res.value.captureGroupCount = toRegex(Top.element).captureGroupCount + 1
        /\ IndexOf(res.value, Top.name) = 1
        /\ \A n \in NamesIn(Top.element) \ {Top.name} :
              IndexOf(res.value, n) = IndexOf(toRegex(Top.element), n) + 1

(* C7 as stated: the capture count of a compiled tree equals the number of  *)
(* Capture nodes in it.                                                      *)
C7_CountIsCaptureNodes ==
    Compiled => res.value.captureGroupCount = CaptureNodes(Top)

(* C7 amended: the capture count of a compiled tree equals the number of    *)
(* Capture nodes in it plus the capture groups regexStats counts in the raw *)
(* texts of its leaves.                                                      *)
C7_CountIsCaptureNodesPlusLeafGroups ==
    Compiled => res.value.captureGroupCount = CaptureNodes(Top) + LeafGroups(Top)

C7_Witness ==
    /\ Compiled
    /\ CaptureNodes(Top) >= 1
    /\ LeafGroups(Top) >= 1
    /\ Top.kind \in {"seq", "alt"}

-----------------------------------------------------------------------------
(* What a compiled rule is expected to hold, read off the pattern tree *)

(* capture groups a tree opens in its text *)
Groups(p) == CaptureNodes(p) + LeafGroups(p)

(* <<group number, scope>> of every tag, numbering groups by their opening *)
(* parenthesis from left to right, base groups opened before the tree      *)
RECURSIVE Entries(_, _)
Entries(p, base) ==
    CASE p.kind = "regex" -> {}
      [] p.kind \in {"alt", "seq"} ->
            Entries(p.first, base) \cup Entries(p.second, base + Groups(p.first))
      [] p.kind = "capture" -> Entries(p.element, base + 1)
      [] p.kind = "tag" ->
            {<<base + 1, p.tags[j]>> : j \in 1..Len(p.tags)}
            \cup Entries(p.element, base)
      [] OTHER -> Entries(p.element, base)

(* the members of a sequence *)
RECURSIVE SeqMembers(_)
SeqMembers(p) ==
    IF p.kind = "seq" THEN SeqMembers(p.first) \cup SeqMembers(p.second) ELSE {p}

Done == out.state # "none"

TheMode == g[1].modes[1]

TheRule == out.value.patterns[1]

(* the grammar is one Match mode over the pattern, without a captures map *)
PlainMatch == Done /\ TheMode.match = <<Top>> /\ TheMode.captures = NoCaps

ScopeEntry(scope) == [name |-> fixScope(scope, g[1])]

Holds(rule, key, scope) ==
    /\ rule.captures # <<>>
    /\ key \in DOMAIN rule.captures[1]
    /\ rule.captures[1][key] = ScopeEntry(scope)

(* C3: a Match mode whose pattern is exactly capture(X,"n").tag(S) compiles  *)
(* to a rule whose match is the text of X, whose captures hold S under key  *)
(* 0, and every other entry X's captures produce at group k under key k-1,  *)
(* and nothing else.                                                         *)
C3_ElisionRehomesEveryEntry ==
    (PlainMatch /\ Top.kind = "tag" /\ Top.element.kind = "capture") =>
        /\ out.state = "ok"
        /\ TheRule.match = <<toRegex(Top.element.element).regex>>
        /\ \A e \in Entries(Top, 0) : Holds(TheRule, e[1] - 1, e[2])
        /\ TheRule.captures # <<>>
        /\ DOMAIN TheRule.captures[1] = {e[1] - 1 : e \in Entries(Top, 0)}

IsTaggedIdent(p) ==
    /\ p.kind = "tag"
    /\ p.element.kind = "capture"
    /\ p.element.element = IDENT

(* C4: in a Match mode without a captures map whose pattern holds a single  *)
(* tagged capture capture(IDENT,"x").tag(S), alone or as a member of a      *)
(* sequence, the captures map has exactly one entry, under the number the   *)
(* capture's group has in the emitted text, naming S qualified by the       *)
(* grammar's scopeName.                                                      *)
C4_SingleTagSingleEntry ==
    (/\ PlainMatch
     /\ Cardinality(TagNodes(Top)) = 1
     /\ \E m \in SeqMembers(Top) : IsTaggedIdent(m)) =>
        /\ out.state = "ok"
        /\ \A e \in Entries(Top, 0) :
              /\ Holds(TheRule, IF Top.kind = "seq" THEN e[1] ELSE 0, e[2])
              /\ Cardinality(DOMAIN TheRule.captures[1]) = 1

(* the names a captures map may use over a pattern *)
KnownNames(pattern) == {"$all"} \cup NamesIn(pattern)

RECURSIVE ModeUnknown(_)
RECURSIVE FieldUnknown(_, _)

(* a captures map over a compiled field that uses a name the field's        *)
(* pattern does not have, itself or in a rule it holds                      *)
FieldUnknown(pattern, caps) ==
    /\ pattern # <<>>
    /\ caps # <<>>
    /\ \E j \in 1..Len(caps[1]) :
          \/ caps[1][j][1] \notin KnownNames(pattern[1])
          \/ ~IsScope(caps[1][j][2]) /\ ModeUnknown(caps[1][j][2])

ModeUnknown(m) ==
    IF IsArray(m) THEN \E j \in 1..Len(m.array) : ModeUnknown(m.array[j])
    ELSE IF m.include # <<>> THEN FALSE
    ELSE \/ FieldUnknown(m.match, m.captures)
         \/ FieldUnknown(m.begin, m.beginCaptures)
         \/ FieldUnknown(m.end, m.endCaptures)
         \/ /\ m.contains # <<>>
            /\ \E j \in 1..Len(m.contains[1]) : ModeUnknown(m.contains[1][j])

UnknownRef(gr) ==
    \/ \E j \in 1..Len(gr.modes) : ModeUnknown(gr.modes[j])
    \/ /\ gr.repository # <<>>
       /\ \E j \in 1..Len(gr.repository[1]) : ModeUnknown(gr.repository[1][j][2])

(* C5: when a captures, beginCaptures or endCaptures map anywhere in the    *)
(* grammar (top-level modes, contains, repository, rules held by a captures *)
(* map) uses a name other than $all that its field's pattern does not have, *)
(* toTextMate throws and yields no grammar object.                           *)
C5_UnknownNameThrows ==
    (Done /\ UnknownRef(g[1])) => out.state = "throw"

(* the unknown name sits in a rule held by a captures entry whose own name  *)
(* is known                                                                  *)
C5_Witness ==
    /\ Done
    /\ TheMode.match = <<Top>>
    /\ TheMode.captures = CapsRule(CapsX)
    /\ "x" \in NamesIn(Top)
    /\ out.state = "throw"
    /\ out.error = "Unknown capture group referenced"

DeclaresAll(caps) ==
    caps # <<>> /\ \E j \in 1..Len(caps[1]) : caps[1][j][1] = "$all"

AllAtZero(caps, compiled) ==
    DeclaresAll(caps) =>
        /\ compiled # <<>>
        /\ 0 \in DOMAIN compiled[1]
        /\ compiled[1][0] = ScopeEntry(CommentLine)

(* C6: in every compiled Match or Span rule, the entry declared under $all  *)
(* is found under key 0 of the compiled captures map.                        *)
C6_AllIsKeyZero ==
    (out.state = "ok" /\ Len(g[1].modes) = 1 /\ TheMode.include = <<>>) =>
        /\ AllAtZero(TheMode.captures, TheRule.captures)
        /\ AllAtZero(TheMode.beginCaptures, TheRule.beginCaptures)
        /\ AllAtZero(TheMode.endCaptures, TheRule.endCaptures)

(* 1 when the emitted text lost the outer parentheses of the pattern's text *)
Elided == IF TheRule.match = <<toRegex(Top).regex>> THEN 0 ELSE 1

(* C8: when two or more Capture nodes occur in one compiled rule, each      *)
(* tagged capture's scope is found in the captures map under the number of  *)
(* that capture's own group in the emitted text, also when the captures     *)
(* wrap one shared Pattern object or one wraps the other directly.          *)
C8_EntriesPerCaptureNode ==
    (PlainMatch /\ CaptureNodes(Top) >= 2 /\ TagNodes(Top) # {}) =>
        /\ out.state = "ok"
        /\ \A e \in Entries(Top, 0) : Holds(TheRule, e[1] - Elided, e[2])

(* C9: toTextMate leaves the grammar object it is handed as it was.         *)
C9_InputUnchanged ==
    [][(out.state = "none" /\ out'.state # "none") => g' = g]_vars

(* C10: a Match rule whose pattern carries no tag and which declares no     *)
(* captures map compiles normally to a rule without a captures entry, for   *)
(* every pattern.                                                            *)
C10_NoEntriesCompiles ==
    (PlainMatch /\ TagNodes(Top) = {}) =>
        /\ out.state = "ok"
        /\ TheRule.captures = <<>>

-----------------------------------------------------------------------------
(* Author code that builds one leaf and compiles it:                        *)
(* regex(r).toRegex() and literal(l).toRegex()                              *)

MaxScanLen == 4

MaxLitLen == 2

(* all texts of 1..n characters of an alphabet *)
TextsUpTo(alphabet, n) == UNION {[1..k -> alphabet] : k \in 1..n}

ScanAlphabet == {"a", "(", ")", "[", "]", "\\", "?", "{", "}", "|", "^"}

AltText == <<"a", "|", "b">>

TwoGroupsText == <<"(", "a", ")", "(", "b", ")">>

RepGroupText == <<"(", "?", ":", "a", "b", ")", "+">>

ClassText == <<"[", "a", "\\", "]", "]">>

ExactlyText == <<"a", "{", "2", "}">>

BetweenText == <<"a", "{", "2", ",", "3", "}">>

AtLeastText == <<"(", "?", ":", "a", "b", ")", "{", "2", ",", "}">>

ExampleTexts ==
    {AltText, TwoGroupsText, RepGroupText, ClassText,
     ExactlyText, BetweenText, AtLeastText}

ScanTexts == ExampleTexts \cup TextsUpTo(ScanAlphabet, MaxScanLen)

LiteralInputs == TextsUpTo(RegexSpecials \cup {"a"}, MaxLitLen)

(* const p = regex(r) with nothing else built *)
RegexAlone(texts) == stack = <<>> /\ Regex(1, texts)

(* const p = literal(l) with nothing else built *)
LiteralAlone(texts) == stack = <<>> /\ Literal(1, texts)

NextScan ==
    \/ RegexAlone(ScanTexts)
    \/ ToRegex

SpecScan == Init /\ [][NextScan]_vars

NextLiteral ==
    \/ LiteralAlone(LiteralInputs)
    \/ ToRegex

SpecLiteral == Init /\ [][NextLiteral]_vars

Scanned(text) == Compiled /\ Top.kind = "regex" /\ Top.text = text

StatsAre(prec, count) ==
    res.value.precedence = prec /\ res.value.captureGroupCount = count

(* C14: regexStats gives (ALT, 0) for a|b, (SEQ, 2) for (a)(b), (REP, 0)    *)
(* for (?:ab)+ and (GROUP, 0) for the one character class [a\]].            *)
C14_StatsOfExamples ==
    /\ Scanned(AltText) => StatsAre(ALT, 0)
    /\ Scanned(TwoGroupsText) => StatsAre(SEQ, 2)
    /\ Scanned(RepGroupText) => StatsAre(REP, 0)
    /\ Scanned(ClassText) => StatsAre(GROUP, 0)

C14_Witness == Scanned(ClassText) /\ StatsAre(GROUP, 0)

(* the characters C15 lists *)
Metacharacters ==
    {".", "*", "+", "?", "^", "$", "{", "}", "(", ")", "|", "[", "]", "\\"}

(* number of metacharacters among the first n characters of s *)
RECURSIVE MetaBefore(_, _)
MetaBefore(s, n) ==
    IF n = 0 THEN 0
    ELSE MetaBefore(s, n - 1) + (IF s[n] \in Metacharacters THEN 1 ELSE 0)

(* t is s with one backslash before each metacharacter and nothing else *)
IsEscapeOf(t, s) ==
    /\ Len(t) = Len(s) + MetaBefore(s, Len(s))
    /\ \A j \in 1..Len(s) :
          /\ t[j + MetaBefore(s, j)] = s[j]
          /\ s[j] \in Metacharacters => t[j + MetaBefore(s, j) - 1] = "\\"

(* C15: literal(s) builds a leaf whose text is s with each metacharacter    *)
(* preceded by one backslash and every other character unchanged, and the   *)
(* leaf compiles to that text with 0 capture groups.                        *)
C15_LiteralEscapes ==
    [][\A s \in LiteralInputs :
          LiteralAlone({s}) =>
              /\ IsEscapeOf(Top'.text, s)
              /\ toRegex(Top').regex = Top'.text
              /\ toRegex(Top').captureGroupCount = 0]_vars

(* literal(".") compiled *)
C15_Witness ==
    /\ Compiled
    /\ Top.text = <<"\\", ".">>
    /\ res.value.regex = <<"\\", ".">>
    /\ res.value.captureGroupCount = 0

(* C19: for one atom followed by a brace quantifier at depth 0, as in      *)
(* a{2}, a{2,3} and (?:ab){2,}, regexStats returns precedence REP: the      *)
(* closing brace does not lower the precedence to SEQ.                       *)
C19_BraceQuantifierIsRep ==
    \A t \in {ExactlyText, BetweenText, AtLeastText} :
        Scanned(t) => res.value.precedence = REP

(* the character at 0-based position i, "" past the end *)
At(t, i) == IF i < Len(t) THEN t[i + 1] ELSE ""

(* characters after [ that do not close the class: ] or ^] *)
ClassHead(t, i) ==
    IF At(t, i) = "]" THEN 1
    ELSE IF At(t, i) = "^" /\ At(t, i + 1) = "]" THEN 2
    ELSE 0

(* the position of the next closing brace at or after i, or the end *)
RECURSIVE BraceEnd(_, _)
BraceEnd(t, i) == IF i < Len(t) /\ t[i + 1] # "}" THEN BraceEnd(t, i + 1) ELSE i

(* Unescaped ( not followed by ? and outside every character class, from   *)
(* position i on, inside depth open classes. With braces, a brace that is   *)
(* not the first character hides everything up to the next closing brace.   *)
RECURSIVE OpenersFrom(_, _, _, _)
OpenersFrom(t, i, depth, braces) ==
    IF i >= Len(t) THEN 0
    ELSE IF t[i + 1] = "\\" THEN OpenersFrom(t, i + 2, depth, braces)
    ELSE IF t[i + 1] = "(" /\ depth = 0
    THEN (IF At(t, i + 1) = "?" THEN 0 ELSE 1) + OpenersFrom(t, i + 1, depth, braces)
    ELSE IF t[i + 1] = "["
    THEN OpenersFrom(t, i + 1 + ClassHead(t, i + 1), depth + 1, braces)
    ELSE IF t[i + 1] = "]" /\ depth > 0
    THEN OpenersFrom(t, i + 1, depth - 1, braces)
    ELSE IF braces /\ t[i + 1] = "{" /\ i > 0
    THEN OpenersFrom(t, BraceEnd(t, i + 1), depth, braces)
    ELSE OpenersFrom(t, i + 1, depth, braces)

(* C20 as stated: regexStats' capture count is the number of unescaped (    *)
(* that are not immediately followed by ? and lie outside every character   *)
(* class.                                                                    *)
C20_CountIsOpenersOutsideClasses ==
    (Compiled /\ Top.kind = "regex") =>
        res.value.captureGroupCount = OpenersFrom(Top.text, 0, 0, FALSE)

(* C20 amended: regexStats' capture count is the number of unescaped ( that *)
(* are not immediately followed by ?, lie outside every character class and *)
(* outside every brace body the scan skips (from a brace that is not the    *)
(* first character up to the next closing brace or the end of the text).    *)
C20_CountIsOpenersOutsideClassesAndBraces ==
    (Compiled /\ Top.kind = "regex") =>
        res.value.captureGroupCount = OpenersFrom(Top.text, 0, 0, TRUE)

(* a ( inside a class that starts with ] is not counted *)
C20_Witness ==
    /\ Scanned(<<"[", "]", "(", "]">>)
    /\ res.value.captureGroupCount = 0

Precedences == {ALT, SEQ, REP, GROUP}

Wrapped(text) == <<"(", "?", ":">> \o text \o <<")">>

(* C17: groupForPrecedence leaves the text of a fragment of precedence      *)
(* GROUP unchanged for every required precedence, and applied twice with    *)
(* the same required precedence it gives the text it gives applied once.    *)
C17_GroupingIdempotent ==
    Compiled =>
        \A prec \in Precedences :
            /\ res.value.precedence = GROUP =>
                  groupForPrecedence(res.value, prec).regex = res.value.regex
            /\ groupForPrecedence(groupForPrecedence(res.value, prec), prec).regex
                  = groupForPrecedence(res.value, prec).regex

(* an alternation grouped for use in a sequence, and grouped again *)
C17_Witness ==
    /\ Compiled
    /\ Top.kind = "alt"
    /\ groupForPrecedence(res.value, SEQ).regex = Wrapped(res.value.regex)
    /\ groupForPrecedence(groupForPrecedence(res.value, SEQ), SEQ).regex
          = Wrapped(res.value.regex)

-----------------------------------------------------------------------------
(* Author code: grammars with other heads, several top-level modes and      *)
(* include modes, over patterns that use lookarounds                        *)

MaxCompileSize == 4

(* a name with upper case and more than one space, no scopeName *)
SpacedHead ==
    [name |-> <<"A", " ", "B", " ", "C">>, scopeName |-> <<>>,
     extensions |-> <<"abc", "ab">>]

(* the empty name, no scopeName *)
EmptyHead == [name |-> <<>>, scopeName |-> <<>>, extensions |-> <<"x">>]

Heads == {DSharpHead, DracoHead, SpacedHead, EmptyHead}

OtherName == <<"o", "t", "h", "e", "r">>

MissingName == <<"m", "i", "s", "s", "i", "n", "g">>

(* grammars over the pattern built: one Match rule, with and without a     *)
(* declared captures map, and an include followed by a Match rule with the  *)
(* included rule in the repository                                          *)
HeadedGrammars ==
    {Grammar(h, <<MatchMode(scope, Top, caps)>>, <<>>) :
        h \in Heads, scope \in {<<>>, <<CommentBlock>>}, caps \in {NoCaps, CapsAll}}
    \cup {Grammar(h, <<include(RuleName), MatchMode(<<Punct>>, Top, NoCaps)>>,
                  <<<< <<RuleName, MatchMode(<<>>, Top, CapsAll)>> >>>>) :
             h \in Heads}

(* repositories whose rules include themselves, each other, or a name that *)
(* is not there; directly, in an array and in a contains list               *)
IncludeRepositories ==
    {<<>>,
     <<<< <<RuleName, include(RuleName)>> >>>>,
     <<<< <<RuleName, include(OtherName)>>, <<OtherName, include(RuleName)>> >>>>,
     <<<< <<RuleName, include(MissingName)>> >>>>,
     <<<< <<RuleName, ArrayOf(<<include(RuleName), include(OtherName)>>)>>,
          <<OtherName, GroupMode(<<include(MissingName)>>)>> >>>>}

IncludeModes ==
    {<<include(a)>> : a \in {RuleName, MissingName}}
    \cup {<<include(RuleName), include(OtherName)>>,
          <<GroupMode(<<include(RuleName)>>), include(MissingName)>>}

IncludeGrammars ==
    {Grammar(h, modes, repo) :
        h \in {DSharpHead, DracoHead}, modes \in IncludeModes,
        repo \in IncludeRepositories}

(* let grammar: TextMateGrammar = { ... } over the pattern built *)
DefineHeadedGrammar ==
    /\ Building
    /\ Len(stack) = 1
    /\ \E gr \in HeadedGrammars : g' = <<gr>>
    /\ UNCHANGED <<stack, nextId, captureCnt, res, out>>

(* let grammar: TextMateGrammar = { ... } made of include modes only *)
DefineIncludeGrammar ==
    /\ Building
    /\ stack = <<>>
    /\ \E gr \in IncludeGrammars : g' = <<gr>>
    /\ UNCHANGED <<stack, nextId, captureCnt, res, out>>

NextCompile ==
    \/ Builtin(MaxCompileSize, {IDENT})
    \/ Capture(MaxCompileSize)
    \/ Tag(MaxCompileSize)
    \/ Lookahead(MaxCompileSize)
    \/ Lookbehind(MaxCompileSize)
    \/ DefineHeadedGrammar
    \/ DefineIncludeGrammar
    \/ ToTextMate

SpecCompile == Init /\ [][NextCompile]_vars

(* C11: a grammar whose name is the empty string and which gives no        *)
(* scopeName is rejected: toTextMate throws instead of returning a grammar. *)
C11_EmptyScopeNameRejected ==
    [][(ToTextMate /\ g[1].name = <<>> /\ g[1].scopeName = <<>>) =>
          out'.state = "throw"]_vars

LowerOf(c) ==
    CASE c = "A" -> "a" [] c = "B" -> "b" [] c = "C" -> "c" [] c = "D" -> "d"
      [] OTHER -> c

(* the name lower-cased, every space replaced by "-" *)
Kebab(name) ==
    [j \in 1..Len(name) |-> IF name[j] = " " THEN "-" ELSE LowerOf(name[j])]

(* the grammar's scope name: the given one or the kebab-cased name *)
DerivedScopeName(gr) ==
    IF gr.scopeName # <<>> THEN gr.scopeName[1] ELSE Kebab(gr.name)

Qualified(scope, gr) == scope.textMateName \o <<".">> \o DerivedScopeName(gr)

(* the scope strings of a compiled rule, a captures entry or a captures map *)
RECURSIVE ScopeStrings(_)
RECURSIVE MapScopeStrings(_)

MapScopeStrings(captures) ==
    IF captures = <<>> THEN {}
    ELSE UNION {ScopeStrings(captures[1][k]) : k \in DOMAIN captures[1]}

ScopeStrings(rule) ==
    IF "include" \in DOMAIN rule THEN {}
    ELSE IF DOMAIN rule = {"name"} THEN {rule.name}
    ELSE {rule.name[j] : j \in 1..Len(rule.name)}
         \cup MapScopeStrings(rule.captures)
         \cup MapScopeStrings(rule.beginCaptures)
         \cup MapScopeStrings(rule.endCaptures)
         \cup (IF rule.patterns = <<>> THEN {}
               ELSE UNION {ScopeStrings(rule.patterns[1][j]) :
                              j \in 1..Len(rule.patterns[1])})

OutputScopeStrings(o) ==
    UNION {ScopeStrings(o.value.patterns[j]) : j \in 1..Len(o.value.patterns)}
    \cup (IF o.value.repository = <<>> THEN {}
          ELSE UNION {ScopeStrings(o.value.repository[1][j][2]) :
                         j \in 1..Len(o.value.repository[1])})

UsedScopes == {CommentBlock, CommentLine, Punct, NameType}

(* the last top-level mode is a Match rule in every grammar over a pattern *)
LastMode(gr) == gr.modes[Len(gr.modes)]

LastRule(o) == o.value.patterns[Len(o.value.patterns)]

(* C12: every scope string of the compiled output is a Scope's text, ".",   *)
(* and the grammar's scope name (the given scopeName or else the            *)
(* kebab-cased name, without "source."); a rule's name is that of its scope *)
(* and the entry of a declared $all that of its declared Scope.             *)
C12_ScopesQualified ==
    [][(ToTextMate /\ out'.state = "ok") =>
          /\ \A str \in OutputScopeStrings(out') :
                \E scope \in UsedScopes : str = Qualified(scope, g[1])
          /\ (LastMode(g[1]).include = <<>> /\ LastMode(g[1]).scope # <<>>) =>
                LastRule(out').name = <<Qualified(LastMode(g[1]).scope[1], g[1])>>
          /\ (LastMode(g[1]).include = <<>> /\ LastMode(g[1]).captures = CapsAll) =>
                Qualified(CommentLine, g[1]) \in ScopeStrings(LastRule(out'))]_vars

(* a rule name, a declared entry and a tag's entry under a kebab-cased name *)
C12_Witness ==
    /\ out.state = "ok"
    /\ g[1].name = SpacedHead.name
    /\ TheMode.include = <<>>
    /\ TheMode.scope # <<>>
    /\ TheMode.captures = CapsAll
    /\ TagNodes(Top) # {}
    /\ Cardinality(DOMAIN TheRule.captures[1]) >= 2
    /\ TheRule.name = <<CommentBlock.textMateName \o <<".", "a", "-", "b", "-", "c">>>>

(* C13: the output's scopeName is "source." and the given scopeName, or    *)
(* else the grammar name lower-cased with every space replaced by "-"; its  *)
(* name, fileTypes and patterns are the grammar's name, its extensions and  *)
(* the compiled top-level modes in the same order.                           *)
C13_HeaderAndOrder ==
    [][(ToTextMate /\ out'.state = "ok") =>
          /\ out'.value.scopeName =
                <<"s", "o", "u", "r", "c", "e", ".">> \o DerivedScopeName(g[1])
          /\ out'.value.name = g[1].name
          /\ out'.value.fileTypes = g[1].extensions
          /\ Len(out'.value.patterns) = Len(g[1].modes)
          /\ \A j \in 1..Len(g[1].modes) :
                out'.value.patterns[j] = modeToTextMate(g[1].modes[j], g'[1]).val]_vars

(* an include then a Match rule, compiled under a kebab-cased name *)
C13_Witness ==
    /\ out.state = "ok"
    /\ out.value.scopeName =
          <<"s", "o", "u", "r", "c", "e", ".", "a", "-", "b", "-", "c">>
    /\ out.value.fileTypes = <<"abc", "ab">>
    /\ Len(out.value.patterns) = 2
    /\ out.value.patterns[1] = include(RuleName)
    /\ out.value.patterns[2].match # <<>>

IncludeNames == {RuleName, OtherName, MissingName}

(* compiled is what the include-only mode is emitted as: an include mode   *)
(* as the object it is, {include: "#<name>"}; an array or a contains list   *)
(* as a rule whose patterns are its members' in order                       *)
RECURSIVE Emits(_, _)
EmitsAll(compiledList, modes) ==
    /\ compiledList # <<>>
    /\ Len(compiledList[1]) = Len(modes)
    /\ \A k \in 1..Len(modes) : Emits(compiledList[1][k], modes[k])

Emits(compiled, mode) ==
    IF IsArray(mode) THEN EmitsAll(compiled.patterns, mode.array)
    ELSE IF mode.include # <<>>
    THEN /\ compiled = mode
         /\ \E n \in IncludeNames : compiled.include = <<<<"#">> \o n>>
    ELSE EmitsAll(compiled.patterns, mode.contains[1])

(* C16: include modes are emitted unchanged as {include: "#<name>"} and    *)
(* the target is never looked up: a grammar whose repository rules include  *)
(* themselves, each other, or a name that is not in the repository compiles *)
(* to a grammar object.                                                      *)
C16_IncludesPassThrough ==
    (Done /\ stack = <<>>) =>
        /\ out.state = "ok"
        /\ Len(out.value.patterns) = Len(g[1].modes)
        /\ \A j \in 1..Len(g[1].modes) :
              Emits(out.value.patterns[j], g[1].modes[j])
        /\ (g[1].repository = <<>>) = (out.value.repository = <<>>)
        /\ g[1].repository # <<>> =>
              /\ Len(out.value.repository[1]) = Len(g[1].repository[1])
              /\ \A j \in 1..Len(g[1].repository[1]) :
                    /\ out.value.repository[1][j][1] = g[1].repository[1][j][1]
                    /\ Emits(out.value.repository[1][j][2], g[1].repository[1][j][2])

(* two repository rules that include each other, and a mode that includes  *)
(* a name that is not in the repository                                     *)
C16_Witness ==
    /\ Done
    /\ stack = <<>>
    /\ out.state = "ok"
    /\ g[1].modes = <<include(MissingName)>>
    /\ g[1].repository =
          <<<< <<RuleName, include(OtherName)>>, <<OtherName, include(RuleName)>> >>>>
    /\ out.value.patterns = <<include(MissingName)>>
    /\ out.value.repository = g[1].repository

(* the pattern's text is one capturing group around everything: the        *)
(* pattern is a Capture, tagged or not                                      *)
OuterIsCapture(p) ==
    \/ p.kind = "capture"
    \/ p.kind = "tag" /\ p.element.kind = "capture"

(* C18: compilePattern removes the first and last character of the text    *)
(* only when the text is one capturing group that spans the whole           *)
(* expression; never when the outermost group is a lookaround or other      *)
(* non-capturing group, as in (?=(x)) from lookahead(x.tag(S)).             *)
C18_ElisionOnlyOfOuterCapture ==
    (Len(stack) = 1 /\ PlainMatch /\ out.state = "ok" /\ Elided = 1) =>
        OuterIsCapture(Top)

-----------------------------------------------------------------------------
(* The steps of one scan: the scanner's variables before each iteration of  *)
(* the while loop of regexStats and after the last one                      *)

RECURSIVE ScanTrace(_, _)
ScanTrace(regex, st) ==
    IF st.i < Len(regex)
    THEN <<st>> \o ScanTrace(regex, ScanStep(regex, st))
    ELSE <<st>>

TraceOf(text) == ScanTrace(text, ScanInit)

ScannedLeaf == Compiled /\ Top.kind = "regex"

(* the precedence along a trace: starts at GROUP, never rises, never goes  *)
(* below ALT, changes only in a step that starts with the stack empty       *)
PrecNeverRises(tr) ==
    /\ tr[1].prec = GROUP
    /\ \A k \in 1..(Len(tr) - 1) :
          /\ tr[k + 1].prec <= tr[k].prec
          /\ tr[k + 1].prec >= ALT
          /\ tr[k + 1].prec # tr[k].prec => tr[k].stk = <<>>

(* C21: during one regexStats scan the tracked precedence starts at GROUP,  *)
(* never rises from one step to the next, never goes below ALT, and changes *)
(* only in a step that starts with the closer stack empty; the scan returns *)
(* the last value.                                                           *)
C21_PrecedenceNeverRises ==
    ScannedLeaf =>
        /\ PrecNeverRises(TraceOf(Top.text))
        /\ res.value.precedence = TraceOf(Top.text)[Len(TraceOf(Top.text))].prec

(* a|(| : lowered to ALT at depth 0, the | inside the group changes nothing, *)
(* and the ( after it cannot raise it to SEQ                                 *)
C21_Witness ==
    /\ Scanned(<<"a", "|", "(", "|">>)
    /\ TraceOf(Top.text)[2].prec = GROUP
    /\ TraceOf(Top.text)[3].prec = ALT
    /\ res.value.precedence = ALT

(* number of ( and [ among the first i characters of t *)
OpenersScanned(t, i) ==
    Cardinality({j \in 1..Min(i, Len(t)) : t[j] \in {"(", "["}})

(* a trace over text t: at most one iteration per character, each one      *)
(* advancing the pointer; the stack no higher than the openers scanned and  *)
(* shrinking only by its top element when that is the scanned character     *)
AdvancesBounded(t, tr) ==
    /\ Len(tr) <= Len(t) + 1
    /\ tr[Len(tr)].i >= Len(t)
    /\ \A k \in 1..(Len(tr) - 1) :
          /\ tr[k + 1].i >= tr[k].i + 1
          /\ Len(tr[k + 1].stk) <= OpenersScanned(t, tr[k + 1].i)
          /\ Len(tr[k + 1].stk) < Len(tr[k].stk) =>
                tr[k].stk = Append(tr[k + 1].stk, t[tr[k].i + 1])

(* C30: regexStats terminates on every text, also with unbalanced brackets, *)
(* an unterminated brace quantifier or a trailing backslash: the scan takes *)
(* at most one iteration per character, every iteration advances the        *)
(* character pointer by at least one, the closer stack is never higher than *)
(* the number of ( and [ scanned so far, and the stack shrinks only by its  *)
(* top element and only when the scanned character equals that element.     *)
C30_ScanTerminates ==
    ScannedLeaf => AdvancesBounded(Top.text, TraceOf(Top.text))

(* (]\ : a closer that matches nothing and a trailing backslash; the scan   *)
(* ends one past the end of the text with ) still expected                  *)
C30_Witness ==
    /\ Scanned(<<"(", "]", "\\">>)
    /\ TraceOf(Top.text)[Len(TraceOf(Top.text))].i = 4
    /\ TraceOf(Top.text)[Len(TraceOf(Top.text))].stk = <<")">>

-----------------------------------------------------------------------------
(* Author code that repeats a pattern: rep, rep0, rep1, opt, atMost,        *)
(* atLeast, between, exactly over leaves, captures and repetitions          *)

MaxRepSize == 4

(* <<min, max>> of the calls: max is <<>> when the argument is left out *)
RepCases ==
    {<<0, <<>>>>, <<1, <<>>>>, <<2, <<>>>>, <<12, <<>>>>,
     <<0, <<1>>>>, <<0, <<0>>>>, <<1, <<1>>>>, <<2, <<2>>>>,
     <<0, <<3>>>>, <<2, <<3>>>>, <<1, <<10>>>>}

NextRep ==
    \/ Builtin(MaxRepSize, {IDENT})
    \/ Regex(MaxRepSize, {RawAlt})
    \/ Capture(MaxRepSize)
    \/ Tag(MaxRepSize)
    \/ Rep(MaxRepSize, RepCases)
    \/ ToRegex

SpecRep == Init /\ [][NextRep]_vars

(* the quantifier C22 gives for each pair of bounds *)
Quantifier(min, max) ==
    CASE <<min, max>> = <<0, <<>>>> -> <<"*">>
      [] <<min, max>> = <<1, <<>>>> -> <<"+">>
      [] <<min, max>> = <<2, <<>>>> -> <<"{", "2", ",", "}">>
      [] <<min, max>> = <<12, <<>>>> -> <<"{", "1", "2", ",", "}">>
      [] <<min, max>> = <<0, <<1>>>> -> <<"?">>
      [] <<min, max>> = <<0, <<0>>>> -> <<"{", "0", "}">>
      [] <<min, max>> = <<1, <<1>>>> -> <<"{", "1", "}">>
      [] <<min, max>> = <<2, <<2>>>> -> <<"{", "2", "}">>
      [] <<min, max>> = <<0, <<3>>>> -> <<"{", ",", "3", "}">>
      [] <<min, max>> = <<2, <<3>>>> -> <<"{", "2", ",", "3", "}">>
      [] <<min, max>> = <<1, <<10>>>> -> <<"{", "1", ",", "1", "0", "}">>

(* the text of a fragment as an operand of a repetition *)
RepOperand(e) == IF e.precedence < REP THEN Wrapped(e.regex) ELSE e.regex

(* r is fragment e repeated with bounds (min, max) *)
IsRepetitionOf(r, e, min, max) ==
    /\ r.regex = RepOperand(e) \o Quantifier(min, max)
    /\ r.precedence = REP
    /\ r.captureGroupCount = e.captureGroupCount
    /\ r.captureNames = e.captureNames
    /\ r.captureGroups = e.captureGroups
    /\ r.tags = e.tags

(* C22: rep(P,min,max) compiles to P's text, wrapped in (?:...) exactly     *)
(* when P's precedence is below REP, followed by * for (0,unbounded), + for *)
(* (1,unbounded), {min,} for (min>1,unbounded), ? for (0,1), {min} when     *)
(* min=max (also 0), {,max} for (0,max) and {min,max} otherwise; the result *)
(* has precedence REP and P's capture count, names, indices and tags.       *)
C22_RepTextAndBookkeeping ==
    (Compiled /\ Top.kind = "rep") =>
        IsRepetitionOf(res.value, toRegex(Top.element), Top.min, Top.max)

(* exactly(IDENT, 0): a sequence is wrapped and the bounds (0,0) give {0}   *)
C22_Witness ==
    /\ Compiled
    /\ Top.kind = "rep"
    /\ Top.min = 0
    /\ Top.max = <<0>>
    /\ Top.element = IDENT
    /\ res.value.regex = Wrapped(IDENT_TEXT) \o <<"{", "0", "}">>

-----------------------------------------------------------------------------
(* how C23 opens a lookaround group *)
LookOpening(behind, negate) ==
    CASE ~behind /\ ~negate -> <<"(", "?", "=">>
      [] ~behind /\ negate -> <<"(", "?", "!">>
      [] behind /\ ~negate -> <<"(", "?", "<", "=">>
      [] behind /\ negate -> <<"(", "?", "<", "!">>

(* r is fragment e inside a lookaround group *)
IsLookaroundOf(r, e, behind, negate) ==
    /\ r.regex = LookOpening(behind, negate) \o e.regex \o <<")">>
    /\ r.precedence = GROUP
    /\ r.captureGroupCount = e.captureGroupCount
    /\ r.captureNames = e.captureNames
    /\ r.captureGroups = e.captureGroups
    /\ r.tags = e.tags

(* C23: a Lookaround node compiles to (?=E), (?!E), (?<=E) or (?<!E) for    *)
(* (behind,negate) = (false,false), (false,true), (true,false), (true,true) *)
(* where E is the element's compiled text; the result has precedence GROUP  *)
(* and the element's capture count, name map, index map and tag map.        *)
C23_LookaroundTextAndBookkeeping ==
    (Compiled /\ Top.kind = "lookaround") =>
        IsLookaroundOf(res.value, toRegex(Top.element), Top.behind, Top.negate)

(* lookbehind(IDENT.tag(S), true) *)
C23_Witness ==
    /\ Compiled
    /\ Top.kind = "lookaround"
    /\ Top.behind
    /\ Top.negate
    /\ Top.element.kind = "tag"
    /\ res.value.regex = <<"(", "?", "<", "!", "(">> \o IDENT_TEXT \o <<")", ")">>
    /\ res.value.captureGroupCount = 1
    /\ Len(res.value.tags) = 1

-----------------------------------------------------------------------------
(* a Capture node, or a Capture node under tags *)
RECURSIVE ResolvesToCapture(_)
ResolvesToCapture(p) ==
    \/ p.kind = "capture"
    \/ p.kind = "tag" /\ ResolvesToCapture(p.element)

(* every payload element some pattern of the tags map carries *)
Payloads(result) ==
    UNION {{result.tags[j][2][k] : k \in 1..Len(result.tags[j][2])} :
              j \in 1..Len(result.tags)}

(* C24: tag(P, tags...) adds exactly one capture group around P when P does *)
(* not already resolve to a Capture and no group when P is a Capture node   *)
(* or an already tagged Capture; in both cases the payload is recorded, so  *)
(* after P.tag(A).tag(B) both A and B are attached and the text has one     *)
(* pair of capturing parentheses around P.                                  *)
C24_TagAddsGroupOnlyIfNeeded ==
    [][Tag(MaxSize) =>
          /\ toRegex(Top').captureGroupCount =
                toRegex(Top).captureGroupCount
                + (IF ResolvesToCapture(Top) THEN 0 ELSE 1)
          /\ Payloads(toRegex(Top)) \subseteq Payloads(toRegex(Top'))
          /\ Top'.tags[1] \in Payloads(toRegex(Top'))]_vars

-----------------------------------------------------------------------------
(* The TagPattern class on its own: new TagPattern(element, tags) takes any *)
(* pattern as its element. The exported tag() calls it with a               *)
(* CapturePattern only; here the constructor is called directly.            *)

MaxTagSize == 4

(* new TagPattern(p, tags) *)
NewTagPattern(max) ==
    /\ CanWrap(max)
    /\ \E tags \in TagLists :
          stack' = ReplaceTop(1, TagPattern(nextId, Top, tags))
    /\ nextId' = nextId + 1
    /\ UNCHANGED <<captureCnt, res, g, out>>

NextTagNode ==
    \/ Builtin(MaxTagSize, {IDENT})
    \/ Capture(MaxTagSize)
    \/ Lookahead(MaxTagSize)
    \/ NewTagPattern(MaxTagSize)
    \/ ToRegex
    \/ DefineGrammar
    \/ ToTextMate

SpecTagNode == Init /\ [][NextTagNode]_vars

(* some Tag node of the tree has an element that is not a Capture node *)
BadTag(p) == \E t \in TagNodes(p) : t.element.kind # "capture"

TaggingError == "Tagging requires an underlying capture"

(* C25: compiling a Tag node whose element is not a Capture raises an error *)
(* in toRegex, so that a grammar over the pattern fails with that error     *)
(* before any capture name is resolved and without a grammar object; no     *)
(* compiled result has a tags map with an identity that has no entry in the *)
(* index map.                                                                *)
C25_TagWithoutCaptureThrows ==
    /\ (res.state # "none" /\ BadTag(Top)) =>
          res.state = "throw" /\ res.error = TaggingError
    /\ (Done /\ Len(stack) = 1 /\ BadTag(Top)) =>
          out.state = "throw" /\ out.error = TaggingError
    /\ Compiled =>
          MapKeys(res.value.tags) \subseteq MapKeys(res.value.captureGroups)

(* a Tag node directly over lookahead(capture(IDENT, "y")) in a rule whose  *)
(* captures map uses the unknown name x: the tagging error is the one raised *)
C25_Witness ==
    /\ Done
    /\ Len(stack) = 1
    /\ Top.kind = "tag"
    /\ Top.element.kind = "lookaround"
    /\ Top.element.element.kind = "capture"
    /\ "x" \notin NamesIn(Top)
    /\ TheMode.match = <<Top>>
    /\ TheMode.captures = CapsX
    /\ out.state = "throw"
    /\ out.error = TaggingError

-----------------------------------------------------------------------------
(* number of Capture nodes of a tree that carry the name *)
RECURSIVE NamedCaptures(_, _)
NamedCaptures(p, name) ==
    CASE p.kind = "regex" -> 0
      [] p.kind \in {"alt", "seq"} ->
            NamedCaptures(p.first, name) + NamedCaptures(p.second, name)
      [] p.kind = "capture" ->
            (IF p.name = name THEN 1 ELSE 0) + NamedCaptures(p.element, name)
      [] OTHER -> NamedCaptures(p.element, name)

(* the group number, counting opening parentheses from base, of the Capture *)
(* node that writes the name last: the right-hand one of siblings, the      *)
(* outer one of nested captures                                              *)
RECURSIVE LastNamed(_, _, _)
LastNamed(p, name, base) ==
    CASE p.kind = "regex" -> 0
      [] p.kind \in {"alt", "seq"} ->
            IF name \in NamesIn(p.second)
            THEN LastNamed(p.second, name, base + Groups(p.first))
            ELSE LastNamed(p.first, name, base)
      [] p.kind = "capture" ->
            IF p.name = name THEN base + 1
            ELSE LastNamed(p.element, name, base + 1)
      [] OTHER -> LastNamed(p.element, name, base)

(* C26: when two Capture nodes of one compiled pattern have the same name,  *)
(* compilation succeeds and the name resolves to the index of the capture   *)
(* written last into the name map: the right-hand one for siblings of a     *)
(* sequence or alternation, the outer one for nested captures.              *)
C26_DuplicateNameLastWins ==
    res.state # "none" =>
        \A n \in CaptureNames :
            NamedCaptures(Top, n) >= 2 =>
                /\ res.state = "ok"
                /\ translateGroupName(res.value, n).err = "none"
                /\ IndexOf(res.value, n) = LastNamed(Top, n, 0)

-----------------------------------------------------------------------------
-----------------------------------------------------------------------------
(* C28: for every pattern tree built from well-formed leaves, scanning the  *)
(* compiled text again with regexStats gives the precedence and the capture *)
(* count that the build result reports.                                      *)
C28_RescanAgreesWithBuild ==
    Compiled =>
        /\ regexStats(res.value.regex).precedence = res.value.precedence
        /\ regexStats(res.value.regex).captureGroupCount
              = res.value.captureGroupCount

-----------------------------------------------------------------------------
(* Author code: patterns whose captures carry several tags, in rules that   *)
(* also declare captures by name                                            *)

MaxOverrideSize == 5

(* a tag that is not a Scope *)
OtherTag == [isScope |-> FALSE, textMateName |-> <<"n", "o", "t", "e">>]

SeveralTagLists ==
    {<<Punct>>, <<CommentBlock, Punct>>, <<Punct, CommentBlock>>,
     <<CommentBlock, OtherTag>>, <<OtherTag>>}

DeclaredGrammars ==
    {Grammar(DSharpHead, <<MatchMode(<<>>, Top, caps)>>, <<>>) :
        caps \in {NoCaps, CapsX, CapsAllX}}
    \cup {Grammar(DracoHead, <<SpanMode(<<>>, Top, Top, CapsX, NoCaps)>>, <<>>)}

(* let grammar: TextMateGrammar = { ... } with declared captures *)
DefineDeclaredGrammar ==
    /\ Building
    /\ Len(stack) = 1
    /\ \E gr \in DeclaredGrammars : g' = <<gr>>
    /\ UNCHANGED <<stack, nextId, captureCnt, res, out>>

NextOverride ==
    \/ Builtin(MaxOverrideSize, {IDENT})
    \/ Capture(MaxOverrideSize)
    \/ TagWith(MaxOverrideSize, SeveralTagLists)
    \/ Cat(MaxOverrideSize)
    \/ DefineDeclaredGrammar
    \/ ToTextMate

SpecOverride == Init /\ [][NextOverride]_vars

HasScope(tags) == \E k \in 1..Len(tags) : IsScope(tags[k])

(* the last Scope of a tag list *)
LastScope(tags) ==
    tags[CHOOSE k \in 1..Len(tags) :
            IsScope(tags[k]) /\ \A j \in (k + 1)..Len(tags) : ~IsScope(tags[j])]

(* a declared name other than $all resolves to the index *)
DeclaredAt(result, caps, idx) ==
    /\ caps # <<>>
    /\ \E j \in 1..Len(caps[1]) :
          /\ caps[1][j][1] # "$all"
          /\ translateGroupName(result, caps[1][j][1]) = [err |-> "none", key |-> idx]

(* the compiled captures hold the scope under the key *)
HoldsAt(compiled, key, scope) ==
    /\ compiled # <<>>
    /\ key \in DOMAIN compiled[1]
    /\ compiled[1][key] = [name |-> Qualified(scope, g[1])]

(* 1 when the emitted text is not the pattern's text: the outer parentheses *)
(* were elided and every key is one less                                    *)
ElidedIn(result, text) == IF text = <<result.regex>> THEN 0 ELSE 1

(* every tagged capture of the field that a declared name also resolves   *)
(* to, or that carries several tags, is emitted with its last Scope         *)
TagsWin(result, caps, text, compiled) ==
    \A j \in 1..Len(result.tags) :
        (/\ HasScope(result.tags[j][2])
         /\ \/ DeclaredAt(result, caps, MapGet(result.captureGroups, result.tags[j][1]))
            \/ Len(result.tags[j][2]) >= 2) =>
            HoldsAt(compiled,
                    MapGet(result.captureGroups, result.tags[j][1])
                        - ElidedIn(result, text),
                    LastScope(result.tags[j][2]))

FieldTagsWin(pattern, caps, text, compiled) ==
    pattern # <<>> => TagsWin(toRegex(pattern[1]), caps, text, compiled)

(* C29: when a declared captures entry and a Scope tag resolve to the same  *)
(* group index in one regex field, the compiled captures map holds at that  *)
(* group's key (the index, one less when the outer parentheses were elided) *)
(* the tag's scope, not the declared one; when one capture carries several  *)
(* Scope tags the last Scope in tag order is the one emitted.               *)
C29_TagsOverrideDeclared ==
    out.state = "ok" =>
        /\ FieldTagsWin(TheMode.match, TheMode.captures,
                        TheRule.match, TheRule.captures)
        /\ FieldTagsWin(TheMode.begin, TheMode.beginCaptures,
                        TheRule.begin, TheRule.beginCaptures)
        /\ FieldTagsWin(TheMode.end, TheMode.endCaptures,
                        TheRule.end, TheRule.endCaptures)

(* capture(IDENT, "x").tag(comment.block, punctuation) in a rule that       *)
(* declares x as entity.name.type: punctuation is emitted                   *)
C29_Witness ==
    /\ out.state = "ok"
    /\ Top.kind = "tag"
    /\ Top.tags = <<CommentBlock, Punct>>
    /\ Top.element.kind = "capture"
    /\ Top.element.name = "x"
    /\ TheMode.captures = CapsAllX
    /\ TheRule.match = <<IDENT_TEXT>>
    /\ TheRule.captures[1][0] = [name |-> Qualified(Punct, g[1])]

=============================================================================
